---- MODULE Spec2Model ----
(***************************************************************************)
(* Rfmalloc: a file-backed heap (inst/fmalloc/fmalloc.cpp) and its R       *)
(* binding (src/fmalloc.cpp).                                              *)
(*                                                                         *)
(* State: the heap files (their SuperBlock and allocator metadata live in  *)
(* the file and are shared by every mapper), and for each process its      *)
(* mappings/handles, the thread-local active base __fm_addr_base, the      *)
(* binding's global_fm_info, and the blocks of the live R vectors.         *)
(* target, firstOpen and ev record what was called and what it returned.   *)
(***************************************************************************)
EXTENDS Integers, Sequences, FiniteSets, TLC

Procs == {"p1", "p2"}
\* The thread of a process on which R runs (R's API is single threaded).
RThread == "t1"
Threads == {"t1", "t2"}
\* p1 runs two threads, p2 one.
ThreadsOf(p) == IF p = "p1" THEN Threads ELSE {RThread}
Files == {"A", "B"}


\* Lengths of the two pre-sized heap files, in allocation units.
LenA == 2
LenB == 2
FileLen(f) == IF f = "A" THEN LenA ELSE LenB
MaxLen == IF LenA > LenB THEN LenA ELSE LenB

\* How many mappings the first process may make (nothing is ever unmapped); the
\* second process attaches one heap per run.
MaxOpens == 2
MapsOf(p) == IF p = "p1" THEN MaxOpens ELSE 1
\* Largest request size handed to allocate.
MaxAlloc == 1

NULL == 0
FMALLOC_MAGIC == 77
DefaultChunk == 1
HeaderSize == 1
FlagPending == -1
FlagDone == 0

\* What the environment answers to stat / open / mmap.
Outcomes == {"ok", "stat_fail", "open_fail", "mmap_fail"}

VARIABLES
    files,       \* [Files -> SuperBlock + arena], the bytes of each heap file
    alive,       \* [Procs -> BOOLEAN]
    handles,     \* [Procs -> Seq([mem, file])], the fm_info objects of a process
    base,        \* [Procs -> [Threads -> address]], __fm_addr_base
    global,      \* [Procs -> handle index or NULL], global_fm_info
    vectors,     \* [Procs -> set of pointers] data blocks of live R vectors
    target,      \* [Procs -> [Threads -> handle index]] the handle last opened/targeted
    firstOpen,   \* [Files -> what the first open reported, or NoOpen]
    ev           \* the last call made and what it returned

vars == <<files, alive, handles, base, global, vectors, target,
          firstOpen, ev>>

NoOpen == [total_size |-> -1, chunk_size |-> -1]

\* Contents of a file nobody initialised: zero bytes, or arbitrary bytes whose
\* leading 8 are not the sentinel.
ZeroFile == [magic |-> 0, total_size |-> 0, chunk_size |-> 0,
             initialized |-> 0, bitmap |-> {}, arena |-> {}]
JunkFile == [magic |-> 5, total_size |-> 9, chunk_size |-> 7,
             initialized |-> 3, bitmap |-> {1}, arena |-> {}]

----------------------------------------------------------------------------
(* fm_super accessors and the allocator's second-stage set-up.             *)

set_total_size(s, len) ==
    [s EXCEPT !.total_size = len, !.chunk_size = DefaultChunk]

bitmap_set(s, i) == [s EXCEPT !.bitmap = @ \cup {i}]

do_ptmalloc_init(s) ==
    IF s.initialized = FlagPending
    THEN [s EXCEPT !.initialized = FlagDone, !.arena = {}]
    ELSE s

----------------------------------------------------------------------------
(* fmalloc_init, lines 107-120: fresh/existing detection on the mapped     *)
(* bytes s of a file of length len; init is the caller's bool.             *)

\* Faulty variant: chunk 0 is not reserved.
FreshSuper_NoBitmap(s, len) ==
    [set_total_size([s EXCEPT !.magic = FMALLOC_MAGIC], len)
        EXCEPT !.initialized = FlagPending]

FreshSuper(s, len) ==
    [bitmap_set(set_total_size([s EXCEPT !.magic = FMALLOC_MAGIC], len), 0)
        EXCEPT !.initialized = FlagPending]

\* Faulty variant: the magic is not consulted, every open initialises.
InitSuper_AlwaysFresh(s, len, init) == [s |-> FreshSuper(s, len), init |-> TRUE]

\* Faulty variant: attaching to an existing heap resets the chunk bitmap.
InitSuper_ResetBitmap(s, len, init) ==
    IF s.magic # FMALLOC_MAGIC
    THEN [s |-> FreshSuper(s, len), init |-> TRUE]
    ELSE [s |-> [s EXCEPT !.bitmap = {0}], init |-> init]

InitSuper(s, len, init) ==
    IF s.magic # FMALLOC_MAGIC
    THEN [s |-> FreshSuper(s, len), init |-> TRUE]
    ELSE [s |-> s, init |-> init]

\* mmap: a range of the address space that overlaps no earlier mapping.
Stride == MaxLen + 1
MapAddr(hs) == (Len(hs) + 1) * Stride

\* Faulty variant: the active base is one global shared by the threads.
SetBase_Global(b, t, addr) == [u \in DOMAIN b |-> addr]

\* __thread uint64_t __fm_addr_base: an assignment reaches the caller only.
SetBase(b, t, addr) == [b EXCEPT ![t] = addr]

\* Faulty variant: the target is left as it is.
NoSetTarget(cur, fi) == cur

\* Faulty variant: the target is set only while none is active.
StaleTarget(cur, fi) == IF cur = 0 THEN fi.mem ELSE cur

\* fmalloc_set_target: the new value of the caller's __fm_addr_base.
fmalloc_set_target(cur, fi) == fi.mem

----------------------------------------------------------------------------
(* The allocator: block offsets are stored in the file, real addresses are *)
(* active base + stored offset.                                            *)

Overlaps(o, n, blk) == o < blk.off + blk.size /\ blk.off < o + n

Fits(s, o, n) ==
    /\ o >= HeaderSize
    /\ o + n <= s.total_size
    /\ \A blk \in s.arena : ~Overlaps(o, n, blk)

FitOffsets(s, n) == {o \in HeaderSize..(MaxLen + 2) : Fits(s, o, n)}

Min(S) == CHOOSE x \in S : \A y \in S : x <= y

\* dlmalloc on the heap s: lowest fitting offset, or NULL.
dlmalloc_off(s, n) == IF FitOffsets(s, n) = {} THEN NULL ELSE Min(FitOffsets(s, n))

\* The handle of process p mapped at address b (0 if none).
HandleAt(p, b) ==
    IF \E h \in 1..Len(handles[p]) : handles[p][h].mem = b
    THEN CHOOSE h \in 1..Len(handles[p]) : handles[p][h].mem = b
    ELSE 0

InRange(hd, ptr) == hd.mem <= ptr /\ ptr < hd.mem + FileLen(hd.file)

\* The handle of process p whose mapped range holds ptr (0 if none).
HandleOf(p, ptr) ==
    IF \E h \in 1..Len(handles[p]) : InRange(handles[p][h], ptr)
    THEN CHOOSE h \in 1..Len(handles[p]) : InRange(handles[p][h], ptr)
    ELSE 0

FileAt(p, b) == IF HandleAt(p, b) = 0 THEN "none" ELSE handles[p][HandleAt(p, b)].file
FileOf(p, ptr) == IF HandleOf(p, ptr) = 0 THEN "none" ELSE handles[p][HandleOf(p, ptr)].file

----------------------------------------------------------------------------
\* The last call as its caller and the binding's Rprintf lines show it: who made
\* it (p, t), the heap file and pointer it concerned, whether it returned
\* normally (ok), the bool it reported (fresh), the caller's active base when
\* fmalloc/ffree was entered (base) and before the call (prev), and whether the
\* library was entered at all (core).
Event(op, p, t, f, ptr, ok, fresh, b, prev, core) ==
    [op |-> op, p |-> p, t |-> t, f |-> f, ptr |-> ptr,
     ok |-> ok, fresh |-> fresh, base |-> b, prev |-> prev, core |-> core]

Init ==
    /\ files = [f \in Files |-> IF f = "A" THEN ZeroFile ELSE JunkFile]
    /\ alive = [p \in Procs |-> TRUE]
    /\ handles = [p \in Procs |-> <<>>]
    /\ base = [p \in Procs |-> [t \in Threads |-> 0]]
    /\ global = [p \in Procs |-> NULL]
    /\ vectors = [p \in Procs |-> {}]
    /\ target = [p \in Procs |-> [t \in Threads |-> 0]]
    /\ firstOpen = [f \in Files |-> NoOpen]
    /\ ev = Event("start", "p1", "t1", "none", NULL, TRUE, FALSE, 0, 0, FALSE)

----------------------------------------------------------------------------
(* fmalloc_init(filepath, &init), lines 34-127, called by thread t of      *)
(* process p; init is the caller's bool, o what the environment answers.   *)
(* A failed stat or open calls exit(1).  A failed mmap trips               *)
(* assert(mem != MAP_FAILED); where NDEBUG removes the assert, the load of *)
(* *magicp at MAP_FAILED, the last address of the address space, faults at *)
(* line 110.  In every build the process ends before line 113 is reached.  *)
(* op names the caller: "open" a direct caller, "r_init" the binding,      *)
(* which stores the returned handle in global_fm_info (line 295).          *)

\* Faulty variant: the result of open(2) is not checked.
Fatal_NoOpenCheck(o) == o \in {"stat_fail", "mmap_fail"}

Fatal(o) == o \in {"stat_fail", "open_fail", "mmap_fail"}

fmalloc_init(p, t, f, o, op, init) ==
    LET r   == InitSuper(files[f], FileLen(f), init)
        s2  == do_ptmalloc_init(r.s)
        mem == MapAddr(handles[p])
        h   == Len(handles[p]) + 1
    IN  IF Fatal(o)
        THEN /\ alive' = [alive EXCEPT ![p] = FALSE]
             /\ ev' = Event(op, p, t, "none", NULL, FALSE, FALSE, 0, 0, TRUE)
             /\ UNCHANGED <<files, handles, base, global, vectors, target,
                            firstOpen>>
        ELSE /\ files' = [files EXCEPT ![f] = s2]
             /\ handles' = [handles EXCEPT ![p] = Append(@, [mem |-> mem, file |-> f])]
             /\ base' = [base EXCEPT ![p] = SetBase(@, t, mem)]
             /\ global' = IF op = "r_init" THEN [global EXCEPT ![p] = h] ELSE global
             /\ target' = [target EXCEPT ![p][t] = h]
             /\ firstOpen' = IF firstOpen[f] = NoOpen
                             THEN [firstOpen EXCEPT ![f] =
                                     [total_size |-> s2.total_size,
                                      chunk_size |-> s2.chunk_size]]
                             ELSE firstOpen
             /\ ev' = Event(op, p, t, f, NULL, TRUE, r.init, 0, 0, TRUE)
             /\ UNCHANGED <<alive, vectors>>

\* fmalloc(size) on thread t: dlmalloc against the heap mapped at the active base.
fmalloc(p, t, b, n, op, prev) ==
    LET f   == FileAt(p, b)
        off == dlmalloc_off(files[f], n)
        ptr == IF off = NULL THEN NULL ELSE b + off
    IN  /\ files' = IF off = NULL THEN files
                    ELSE [files EXCEPT ![f].arena = @ \cup {[off |-> off, size |-> n]}]
        /\ vectors' = IF op = "r_alloc" /\ ptr # NULL THEN [vectors EXCEPT ![p] = @ \cup {ptr}]
                      ELSE vectors
        /\ ev' = Event(op, p, t, f, ptr, ptr # NULL, FALSE, b, prev, TRUE)

\* The blocks of heap s after ffree of the offset off.  An offset that names no
\* live block of s is undefined behaviour in dlfree: the metadata may survive
\* or lose any block.
AfterFree(s, off) ==
    IF \E blk \in s.arena : blk.off = off
    THEN {{blk \in s.arena : blk.off # off}}
    ELSE {s.arena} \cup {s.arena \ {blk} : blk \in s.arena}

\* Whether dlfree of that offset can take the process down.
MayCrash(s, off) == ~ \E blk \in s.arena : blk.off = off

\* ffree(addr) on thread t with active base b: dlfree of the offset addr - b in
\* the heap mapped at b.
ffree(p, b, ptr) ==
    LET f == FileAt(p, b)
    IN  \E a \in AfterFree(files[f], ptr - b), crash \in BOOLEAN :
            /\ crash => MayCrash(files[f], ptr - b)
            /\ files' = [files EXCEPT ![f].arena = a]
            /\ alive' = IF crash THEN [alive EXCEPT ![p] = FALSE] ELSE alive

----------------------------------------------------------------------------
(* Direct callers of the library (any thread of any process).              *)

\* bool init_flag = false; (line 291): what every caller passes as *init.
init_flag == FALSE

Open(p, t, f, o) ==
    /\ alive[p]
    /\ Len(handles[p]) < MapsOf(p)
    /\ fmalloc_init(p, t, f, o, "open", init_flag)

SetTarget(p, t, h) ==
    /\ alive[p]
    /\ h \in 1..Len(handles[p])
    /\ base' = [base EXCEPT ![p] =
                  SetBase(@, t, fmalloc_set_target(base[p][t], handles[p][h]))]
    /\ target' = [target EXCEPT ![p][t] = h]
    /\ ev' = Event("set_target", p, t, "none", NULL, TRUE, FALSE, 0, 0, TRUE)
    /\ UNCHANGED <<files, alive, handles, global, vectors, firstOpen>>

Alloc(p, t, n) ==
    /\ alive[p]
    /\ base[p][t] # 0
    /\ fmalloc(p, t, base[p][t], n, "alloc", 0)
    /\ UNCHANGED <<alive, handles, base, global, target, firstOpen>>

\* The pointers a direct caller may pass to ffree under the active base b: the
\* live blocks of the heap mapped there (its own, or found in the persistent
\* heap from an earlier run).  A direct caller keeps that contract.
LivePtrs(p, b) ==
    IF HandleAt(p, b) = 0 THEN {}
    ELSE {b + blk.off : blk \in files[FileAt(p, b)].arena}

Free(p, t, ptr) ==
    /\ alive[p]
    /\ ptr \in LivePtrs(p, base[p][t])
    /\ ffree(p, base[p][t], ptr)
    /\ ev' = Event("free", p, t, FileAt(p, base[p][t]), ptr,
                   TRUE, FALSE, base[p][t], 0, TRUE)
    /\ UNCHANGED <<handles, base, global, vectors, target, firstOpen>>

\* The process ends and a fresh one takes its place: mappings, handles and
\* thread-locals are gone, the files stay as they are.
Restart(p) ==
    /\ alive' = [alive EXCEPT ![p] = TRUE]
    /\ handles' = [handles EXCEPT ![p] = <<>>]
    /\ base' = [base EXCEPT ![p] = [t \in Threads |-> 0]]
    /\ global' = [global EXCEPT ![p] = NULL]
    /\ vectors' = [vectors EXCEPT ![p] = {}]
    /\ target' = [target EXCEPT ![p] = [t \in Threads |-> 0]]
    /\ ev' = Event("restart", p, RThread, "none", NULL,
                   TRUE, FALSE, 0, 0, FALSE)
    /\ UNCHANGED <<files, firstOpen>>

----------------------------------------------------------------------------
(* The R binding, on the R thread of process p.                            *)

\* An R-level call that returns without touching the heap: ok says whether it
\* returned a value (TRUE) or raised an R error (FALSE).
RNoop(op, p, f, ok) ==
    /\ ev' = Event(op, p, RThread, "none", NULL, ok, FALSE, 0, 0, FALSE)
    /\ UNCHANGED <<files, alive, handles, base, global, vectors, target, firstOpen>>

\* Faulty variant: init does not look at global_fm_info.
NeverInitialized(g) == FALSE

\* The test of line 275.
AlreadyInitialized(g) == g # NULL

init_fmalloc_impl(p, f, valid, o) ==
    /\ alive[p]
    /\ IF AlreadyInitialized(global[p]) THEN RNoop("r_init", p, f, TRUE)
       ELSE IF ~valid THEN RNoop("r_init", p, f, FALSE)
       ELSE /\ Len(handles[p]) < MapsOf(p)
            /\ fmalloc_init(p, RThread, f, o, "r_init", init_flag)

\* fmalloc_r_alloc(allocator, length), lines 130-158, reached through
\* Rf_allocVector3 with length > 0 and global_fm_info set.
fmalloc_r_alloc(p, n) ==
    LET fi == handles[p][global[p]]
        b  == fmalloc_set_target(base[p][RThread], fi)
    IN  /\ base' = [base EXCEPT ![p] = SetBase(@, RThread, b)]
        /\ target' = [target EXCEPT ![p][RThread] = global[p]]
        /\ fmalloc(p, RThread, b, n, "r_alloc", base[p][RThread])
        /\ UNCHANGED <<alive, handles, global, firstOpen>>

create_fmalloc_vector_impl(p, n, argsok, typeok) ==
    /\ alive[p]
    /\ IF global[p] = NULL THEN RNoop("r_create", p, "none", FALSE)
       ELSE IF ~argsok THEN RNoop("r_create", p, "none", FALSE)
       ELSE IF n < 0 THEN RNoop("r_create", p, "none", FALSE)
       ELSE IF n = 0 THEN RNoop("r_create", p, "none", TRUE)
       ELSE IF ~typeok THEN RNoop("r_create", p, "none", FALSE)
       ELSE fmalloc_r_alloc(p, n)

\* fmalloc_r_free(allocator, mem), lines 160-179: R releases the block mem of a
\* vector it no longer needs, handing back the pointer fmalloc_r_alloc gave it.
fmalloc_r_free(p, mem) ==
    /\ alive[p]
    /\ mem \in vectors[p]
    /\ vectors' = [vectors EXCEPT ![p] = @ \ {mem}]
    /\ IF global[p] = NULL
       THEN /\ ev' = Event("r_free", p, RThread, FileOf(p, mem), mem,
                   TRUE, FALSE, base[p][RThread], base[p][RThread], FALSE)
            /\ UNCHANGED <<files, alive, base, target>>
       ELSE LET fi == handles[p][global[p]]
                b  == fmalloc_set_target(base[p][RThread], fi)
            IN  /\ base' = [base EXCEPT ![p] = SetBase(@, RThread, b)]
                /\ target' = [target EXCEPT ![p][RThread] = global[p]]
                /\ ffree(p, b, mem)
                /\ ev' = Event("r_free", p, RThread, FileOf(p, mem), mem,
                   TRUE, FALSE, b, base[p][RThread], TRUE)
    /\ UNCHANGED <<handles, global, firstOpen>>

\* cleanup_fmalloc_impl, lines 359-373: the handle is dropped, nothing is
\* unmapped, the live vectors stay.
cleanup_fmalloc_impl(p) ==
    /\ alive[p]
    /\ global' = [global EXCEPT ![p] = NULL]
    /\ ev' = Event("r_cleanup", p, RThread, "none", NULL,
                   TRUE, FALSE, 0, 0, FALSE)
    /\ UNCHANGED <<files, alive, handles, base, vectors, target, firstOpen>>

----------------------------------------------------------------------------
\* The process in which R runs.
RProc == "p1"

DoOpen == \E p \in Procs : \E t \in ThreadsOf(p) : \E f \in Files, o \in Outcomes :
             Open(p, t, f, o)
DoSetTarget == \E p \in Procs : \E t \in ThreadsOf(p) : \E h \in 1..MaxOpens :
                  SetTarget(p, t, h)
DoAlloc == \E p \in Procs : \E t \in ThreadsOf(p) : \E n \in 1..MaxAlloc : Alloc(p, t, n)
DoFree == \E p \in Procs : \E t \in ThreadsOf(p) : \E ptr \in LivePtrs(p, base[p][t]) :
             Free(p, t, ptr)
DoRestart == \E p \in Procs : Restart(p)

\* The library used directly: two processes, the first with two threads.
Next ==
    \/ DoOpen
    \/ DoSetTarget
    \/ DoAlloc
    \/ DoFree
    \/ DoRestart

Spec == Init /\ [][Next]_vars

DoRInit == \E f \in Files, valid \in BOOLEAN, o \in Outcomes :
              init_fmalloc_impl(RProc, f, valid, o)
DoRCreate == \E n \in (-1)..MaxAlloc, argsok \in BOOLEAN, typeok \in BOOLEAN :
                create_fmalloc_vector_impl(RProc, n, argsok, typeok)
DoRFree == \E mem \in vectors[RProc] : fmalloc_r_free(RProc, mem)
DoRCleanup == cleanup_fmalloc_impl(RProc)
\* Other native code on the R thread calling the library itself.
DoROpen == \E f \in Files, o \in Outcomes : Open(RProc, RThread, f, o)
DoRSetTarget == \E h \in 1..MaxOpens : SetTarget(RProc, RThread, h)
DoRRestart == Restart(RProc)

\* An R session using the binding.
NextR ==
    \/ DoRInit
    \/ DoRCreate
    \/ DoRFree
    \/ DoRCleanup
    \/ DoROpen
    \/ DoRSetTarget
    \/ DoRRestart

SpecR == Init /\ [][NextR]_vars

----------------------------------------------------------------------------
(* Properties.                                                             *)

\* C1: the first successful open of a file whose leading bytes are not the
\* sentinel reports wasFresh = TRUE and records total_size = the file's length;
\* every later open of it, by any process, reports wasFresh = FALSE and the
\* total_size and chunk_size the first open reported.
C1_FirstOpenFresh ==
    [][(ev'.op = "open" /\ ev'.ok) =>
          IF firstOpen[ev'.f] = NoOpen
          THEN /\ ev'.fresh
               /\ files'[ev'.f].total_size = FileLen(ev'.f)
          ELSE /\ ~ev'.fresh
               /\ files'[ev'.f].total_size = firstOpen[ev'.f].total_size
               /\ files'[ev'.f].chunk_size = firstOpen[ev'.f].chunk_size]_vars

\* A later open by the second process of a heap the first process has mapped.
C1_Witness ==
    /\ ev.op = "open" /\ ev.ok /\ ~ev.fresh /\ ev.p = "p2"
    /\ \E h \in 1..Len(handles["p1"]) : handles["p1"][h].file = ev.f
    /\ files[ev.f].total_size = FileLen(ev.f)

SuperOf(s) == [magic |-> s.magic, total_size |-> s.total_size,
               chunk_size |-> s.chunk_size, initialized |-> s.initialized,
               bitmap |-> s.bitmap]

\* C2: an open of a file whose magic already equals the sentinel leaves magic,
\* total_size, chunk_size, the init flag and the bitmap of every such file as
\* they were.
C2_AttachWritesNothing ==
    [][(ev'.op = "open" /\ ev'.ok) =>
          \A f \in Files : files[f].magic = FMALLOC_MAGIC =>
              SuperOf(files'[f]) = SuperOf(files[f])]_vars

\* A second attach to heap B (whose bitmap held more than bit 0) with a live block.
C2_Witness ==
    /\ ev.op = "open" /\ ev.ok /\ ~ev.fresh /\ ev.f = "B"
    /\ files["B"].arena # {}
    /\ files["B"].bitmap = {0, 1}
    /\ Len(handles[ev.p]) = MaxOpens

\* C3: once a file has been opened successfully, bit 0 of its bitmap is set in
\* every later state, whatever open, setTarget, allocate or free does.
C3_Bit0Set == \A f \in Files : firstOpen[f] # NoOpen => 0 \in files[f].bitmap

\* A free on heap A (all zero before its first open) after a reattachment.
C3_Witness ==
    /\ ev.op = "free" /\ ev.f = "A"
    /\ files["A"].bitmap = {0}
    /\ \A p \in Procs : \E h \in 1..Len(handles[p]) : handles[p][h].file = "A"

\* C4: an open whose stat, open or mmap fails ends the process and returns no
\* handle, writes no file, runs no allocator set-up and leaves every active
\* target as it was.
C4_FatalOpen ==
    [][\A p \in Procs, t \in Threads, f \in Files, o \in Outcomes \ {"ok"} :
          Open(p, t, f, o) =>
              /\ ~alive'[p]
              /\ ~ev'.ok
              /\ handles' = handles
              /\ files' = files
              /\ base' = base
              /\ target' = target]_vars

\* A process that had a heap open and allocated from it died in a failed open.
C4_Witness ==
    /\ ev.op = "open" /\ ~ev.ok /\ ~alive[ev.p]
    /\ Len(handles[ev.p]) > 0
    /\ base[ev.p][ev.t] # 0
    /\ \E f \in Files : files[f].arena # {}

\* C5: each thread's active base is the mapped base of the handle that this
\* thread itself last opened or targeted (0 if it did neither), under every
\* interleaving of the calls of the two threads.
C5_PerThreadTarget ==
    \A p \in Procs : \A t \in ThreadsOf(p) :
        base[p][t] = IF target[p][t] = 0 THEN 0 ELSE handles[p][target[p][t]].mem

\* The two threads of p1 target two different heaps at once.
C5_Witness ==
    /\ ev.op = "set_target"
    /\ target["p1"]["t1"] # 0 /\ target["p1"]["t2"] # 0
    /\ base["p1"]["t1"] # base["p1"]["t2"]
    /\ FileAt("p1", base["p1"]["t1"]) # FileAt("p1", base["p1"]["t2"])

InTotal(hd, ptr) == hd.mem <= ptr /\ ptr < hd.mem + files[hd.file].total_size

\* C6: a pointer returned by allocate lies in [base, base + total_size) of the
\* heap the calling thread last targeted and outside the range of every
\* mapping of another heap file in the process.
C6_Isolation ==
    (ev.op = "alloc" /\ ev.ptr # NULL) =>
        LET hs == handles[ev.p]
            h  == target[ev.p][ev.t]
        IN  /\ h # 0
            /\ InTotal(hs[h], ev.ptr)
            /\ \A k \in 1..Len(hs) :
                   hs[k].file # hs[h].file => ~InTotal(hs[k], ev.ptr)

\* With A and B both mapped and both holding a live block, an allocation on B
\* made right after the target moved there.
C6_Witness ==
    /\ ev.op = "alloc" /\ ev.ptr # NULL /\ ev.f = "B" /\ ev.p = "p1"
    /\ {handles["p1"][k].file : k \in 1..Len(handles["p1"])} = Files
    /\ files["A"].arena # {}
    /\ handles["p1"][1].file = "B"

\* C7: when the binding enters fmalloc or ffree, the R thread's active base is
\* the mapped base of global_fm_info.
C7_TargetBeforeCall ==
    (ev.op \in {"r_alloc", "r_free"} /\ ev.core) =>
        /\ global[RProc] # NULL
        /\ ev.base = handles[RProc][global[RProc]].mem

\* The R thread's target had been moved to another heap before the allocation.
C7_Witness ==
    /\ ev.op = "r_alloc" /\ ev.ptr # NULL
    /\ ev.prev # 0 /\ ev.prev # ev.base
    /\ FileAt(RProc, ev.prev) # ev.f

\* C8: every pointer the binding passes to ffree came from the heap file that
\* is the R thread's active target at that call.
C8_FreeUnderOwnHeap ==
    (ev.op = "r_free" /\ ev.core) => ev.f = FileAt(RProc, ev.base)

\* C9: every block R releases through fmalloc_r_free is passed to ffree and is
\* no longer a live block of the heap it came from.
C9_ReleasedIsFreed ==
    ev.op = "r_free" =>
        /\ ev.core
        /\ LET hd == handles[RProc][HandleOf(RProc, ev.ptr)]
           IN  ~ \E blk \in files[hd.file].arena : blk.off = ev.ptr - hd.mem

\* C10: init while global_fm_info is set returns FALSE and changes nothing; an
\* init that opens a file starts with global_fm_info null.
C10_InitWhileInitialized ==
    [][(ev'.op = "r_init" /\ global[RProc] # NULL) =>
          /\ ev'.ok /\ ~ev'.fresh /\ ~ev'.core
          /\ UNCHANGED <<files, alive, handles, base, global, vectors, target,
                         firstOpen>>]_vars

\* A refused init while a vector of the first heap is live.
C10_Witness ==
    /\ ev.op = "r_init" /\ ev.ok /\ ~ev.core
    /\ global[RProc] # NULL
    /\ vectors[RProc] # {}

====
